---- MODULE Spec2Model ----
(***************************************************************************)
(* A model of the Agensium source agents: drift detection                  *)
(* (drift_detector.py), readiness rating (readiness_rater.py), field       *)
(* profiling (field_profiler.py), schema scanning (schema_scanner.py) and  *)
(* the /detect-drift route (routes.py).                                    *)
(*                                                                         *)
(* Every request is handled synchronously and statelessly: a handler is    *)
(* one action that draws its inputs, runs the whole handler and leaves     *)
(* the call and what it returned (or raised) in the state.  The only       *)
(* resource a handler holds is a connection to an in-memory SQLite         *)
(* engine: conns is the set of connections that are open, and the two SQL  *)
(* loaders are also modelled statement by statement (SpecEngine).          *)
(***************************************************************************)
EXTENDS Integers, Sequences, FiniteSets, TLC

VARIABLES pc, call, ret, conns

vars == <<pc, call, ret, conns>>

(***************************************************************************)
(* Bounds.                                                                 *)
(***************************************************************************)
\* rows of a table handed to _detect_drift_between_dfs
DriftMaxRows == 1
\* rows of a table handed to the readiness rater, the profiler and the scanner
MaxRows == 2
\* statements of a SQL script handed to the readiness rater
MaxStmts == 2

(***************************************************************************)
(* Cells, columns and tables (pandas DataFrames).                          *)
(* A cell is a number, a string, a boolean, a date or a missing marker     *)
(* (NaN / None / NaT).  A date is the integer yyyymmdd, whose order is the *)
(* calendar order.                                                         *)
(***************************************************************************)
NaN == [k |-> "nan", n |-> 0, s |-> ""]
Num(i) == [k |-> "num", n |-> i, s |-> ""]
Str(x) == [k |-> "str", n |-> 0, s |-> x]
Bool(b) == [k |-> "bool", n |-> IF b THEN 1 ELSE 0, s |-> ""]
Date(d) == [k |-> "date", n |-> d, s |-> ""]

\* column names, as their characters
NameId == <<"i", "d">>
NameDate == <<"O", "_", "D", "a", "t", "e">>
Names == {NameId, NameDate}

\* str.lower() on one character
LowerChar(c) ==
    CASE c = "D" -> "d"
      [] c = "O" -> "o"
      [] c = "A" -> "a"
      [] c = "T" -> "t"
      [] c = "E" -> "e"
      [] OTHER -> c

\* str.lower()
Lower(name) == [i \in 1..Len(name) |-> LowerChar(name[i])]

\* sub in name
Contains(name, sub) ==
    \E i \in 0..(Len(name) - Len(sub)) :
        \A j \in 1..Len(sub) : name[i + j] = sub[j]

\* "date" in col.lower()
NameHasDate(col) == Contains(Lower(col), <<"d", "a", "t", "e">>)

\* Series.dropna()
DropNa(values) == SelectSeq(values, LAMBDA c : c.k # "nan")

\* Series.empty
IsEmpty(values) == Len(values) = 0

Range(seq) == {seq[i] : i \in 1..Len(seq)}

\* the values a column of each storage type can hold
DomainOf(dt) ==
    CASE dt = "int64" -> {Num(3)}
      [] dt = "float64" -> {Num(2), NaN}
      [] dt = "bool" -> {Bool(TRUE)}
      [] dt = "datetime64" -> {Date(20240105), NaN}
      [] dt = "category" -> {Str("2024-01-05")}
      [] OTHER -> {Str("abc"), Str("2024-01-05")}

\* the columns of n rows; dom: storage type -> the values it can hold
ColumnsOf(n, dom) ==
    UNION {{[dtype |-> dt, values |-> v] : v \in [1..n -> dom[dt]]} : dt \in DOMAIN dom}

\* the tables of n rows over Names
TablesOf(n, dom) ==
    {[nrows |-> n, col |-> f] :
        f \in UNION {[S -> ColumnsOf(n, dom)] : S \in SUBSET Names}}

Columns(df) == DOMAIN df.col

\* dict[key] = value
Put(d, key, value) ==
    [x \in (DOMAIN d) \cup {key} |-> IF x = key THEN value ELSE d[x]]

EmptyDict == [x \in {} |-> {}]

(***************************************************************************)
(* drift_detector.py: DriftDetector._detect_drift_between_dfs              *)
(***************************************************************************)
\* pd.api.types.is_numeric_dtype
IsNumericDtype(dt) == dt \in {"int64", "float64", "bool"}

\* pd.api.types.is_object_dtype
IsObjectDtype(dt) == dt = "object"

\* pd.api.types.is_datetime64_any_dtype
IsDatetime64AnyDtype(dt) == dt = "datetime64"

\* the text a date parser accepts, with the date it yields
DateStrings == {"2024-01-05"}
ParseDate(s) == IF s = "2024-01-05" THEN 20240105 ELSE 0

\* pd.to_datetime(errors="coerce") on one cell: a date, or NaT when the cell
\* does not parse; a number is an offset from the epoch
ToDatetimeCoerce(c) ==
    CASE c.k = "date" -> c
      [] c.k = "str" -> IF c.s \in DateStrings THEN Date(ParseDate(c.s)) ELSE NaN
      [] c.k = "num" -> Date(19700101)
      [] OTHER -> NaN

\* pd.to_datetime(series, errors="coerce").dropna()
ToDatetimeDropNa(values) ==
    DropNa([i \in 1..Len(values) |-> ToDatetimeCoerce(values[i])])

\* str(timestamp.date()): the ISO calendar date, as <<year, month, day>>
IsoDate(d) == <<d \div 10000, (d \div 100) % 100, d % 100>>

MinOf(values) == CHOOSE c \in Range(values) : \A o \in Range(values) : c.n <= o.n
MaxOf(values) == CHOOSE c \in Range(values) : \A o \in Range(values) : c.n >= o.n

RECURSIVE SumOf(_)
SumOf(values) ==
    IF values = <<>> THEN 0 ELSE Head(values).n + SumOf(Tail(values))

\* curr_col.mean() > base_col.mean(), on non-empty columns
MeanGreater(curr_col, base_col) ==
    SumOf(curr_col) * Len(base_col) > SumOf(base_col) * Len(curr_col)

\* the cells ks_2samp and Series.mean() can work on
IsNumberCell(c) == c.k \in {"num", "bool"}

\* the numeric arm's try block raises: the oracle says the statistics library
\* does, or the current column holds cells that are no numbers
NumericRaises(col, curr_col, raising) ==
    col \in raising \/ \E c \in Range(curr_col) : ~IsNumberCell(c)

\* lines 44-54: the numeric arm
NumericDrift(col, base_col, curr_col, raising) ==
    IF NumericRaises(col, curr_col, raising)
    THEN {[note |-> "numeric drift detection failed"]}
    ELSE {[drift_score |-> "ks_stat",
           p_value |-> "p_value",
           direction |-> <<IF MeanGreater(curr_col, base_col)
                           THEN "increase" ELSE "decrease", "in mean", col>>]}

\* lines 57-74: the categorical arm
CategoricalDrift(col, base_col, curr_col, raising) ==
    IF col \in raising
    THEN {[note |-> "categorical drift detection failed"]}
    ELSE LET new_categories == Range(curr_col) \ Range(base_col)
         IN  {[drift_score |-> "chi2",
               p_value |-> "p_value",
               direction |-> <<IF new_categories # {}
                               THEN "new categories appeared"
                               ELSE "distribution changed">>]}

\* the temporal arm's try block raises: the oracle says so, or the current
\* column is boolean, which to_datetime refuses whatever errors= says
TemporalRaises(col, curr_col, raising) ==
    col \in raising \/ \E c \in Range(curr_col) : c.k = "bool"

\* lines 77-89: the temporal arm
TemporalDrift(col, base_col, curr_col, raising) ==
    IF TemporalRaises(col, curr_col, raising)
    THEN {[note |-> "datetime drift detection failed"]}
    ELSE LET base_dates == ToDatetimeDropNa(base_col)
             curr_dates == ToDatetimeDropNa(curr_col)
         IN  IF ~IsEmpty(base_dates) /\ ~IsEmpty(curr_dates)
             THEN {[earliest_baseline |-> IsoDate(MinOf(base_dates).n),
                    earliest_current |-> IsoDate(MinOf(curr_dates).n),
                    latest_baseline |-> IsoDate(MaxOf(base_dates).n),
                    latest_current |-> IsoDate(MaxOf(curr_dates).n)]}
             ELSE {}

\* which arm lines 44, 57 and 77 pick for a column, from the baseline side
DriftArm(col, base_dtype) ==
    CASE IsNumericDtype(base_dtype) -> "numeric"
      [] IsObjectDtype(base_dtype) -> "categorical"
      [] IsDatetime64AnyDtype(base_dtype) \/ NameHasDate(col) -> "temporal"
      [] OTHER -> "none"

\* lines 36-89, one turn of the loop: the finding the data-drift pass stores
\* for a shared column, as a set of at most one finding
ColumnDrift(col, baseline_df, current_df, raising) ==
    LET base_col == DropNa(baseline_df.col[col].values)
        curr_col == DropNa(current_df.col[col].values)
        arm == DriftArm(col, baseline_df.col[col].dtype)
    IN  IF IsEmpty(base_col) \/ IsEmpty(curr_col) THEN {}
        ELSE CASE arm = "numeric" -> NumericDrift(col, base_col, curr_col, raising)
               [] arm = "categorical" -> CategoricalDrift(col, base_col, curr_col, raising)
               [] arm = "temporal" -> TemporalDrift(col, base_col, curr_col, raising)
               [] OTHER -> {}

\* line 20: the columns of the first loop
NewColumns(baseline_cols, current_cols) == current_cols \ baseline_cols

\* line 24 with the operands of the difference swapped
MissingColumnsSwapped(baseline_cols, current_cols) == current_cols \ baseline_cols

\* line 24: the columns of the second loop
MissingColumns(baseline_cols, current_cols) == baseline_cols \ current_cols

\* line 29 comparing with == instead of !=
TypeChangedNegated(baseline_df, current_df, col) ==
    baseline_df.col[col].dtype = current_df.col[col].dtype

\* line 29
TypeChanged(baseline_df, current_df, col) ==
    baseline_df.col[col].dtype # current_df.col[col].dtype

TypeChangeFinding(baseline_df, current_df, col) ==
    [schema_change |-> <<"type change", baseline_df.col[col].dtype,
                         current_df.col[col].dtype>>]

\* lines 20-21
RECURSIVE NewColumnPass(_, _)
NewColumnPass(drift_report, cols) ==
    IF cols = {} THEN drift_report
    ELSE LET col == CHOOSE x \in cols : TRUE
         IN  NewColumnPass(
                 Put(drift_report, col,
                     [schema_change |-> <<"new column detected", col>>]),
                 cols \ {col})

\* lines 24-25
RECURSIVE MissingColumnPass(_, _)
MissingColumnPass(drift_report, cols) ==
    IF cols = {} THEN drift_report
    ELSE LET col == CHOOSE x \in cols : TRUE
         IN  MissingColumnPass(
                 Put(drift_report, col,
                     [schema_change |-> <<"column missing", col>>]),
                 cols \ {col})

\* lines 28-32
RECURSIVE TypeChangePass(_, _, _, _)
TypeChangePass(drift_report, cols, baseline_df, current_df) ==
    IF cols = {} THEN drift_report
    ELSE LET col == CHOOSE x \in cols : TRUE
             next == IF TypeChanged(baseline_df, current_df, col)
                     THEN Put(drift_report, col,
                              TypeChangeFinding(baseline_df, current_df, col))
                     ELSE drift_report
         IN  TypeChangePass(next, cols \ {col}, baseline_df, current_df)

\* lines 35-89 with one try around the whole loop: the first column that raises
\* ends the pass, and what was built so far is returned without a note
RECURSIVE DataDriftPassOneTry(_, _, _, _, _)
DataDriftPassOneTry(drift_report, cols, baseline_df, current_df, raising) ==
    IF cols = {} THEN drift_report
    ELSE LET col == CHOOSE x \in cols : TRUE
             found == ColumnDrift(col, baseline_df, current_df, raising)
         IN  IF \E f \in found : "note" \in DOMAIN f THEN drift_report
             ELSE DataDriftPassOneTry(
                      IF found = {} THEN drift_report
                      ELSE Put(drift_report, col, CHOOSE f \in found : TRUE),
                      cols \ {col}, baseline_df, current_df, raising)

\* lines 35-89
RECURSIVE DataDriftPass(_, _, _, _, _)
DataDriftPass(drift_report, cols, baseline_df, current_df, raising) ==
    IF cols = {} THEN drift_report
    ELSE LET col == CHOOSE x \in cols : TRUE
             found == ColumnDrift(col, baseline_df, current_df, raising)
             next == IF found = {} THEN drift_report
                     ELSE Put(drift_report, col, CHOOSE f \in found : TRUE)
         IN  DataDriftPass(next, cols \ {col}, baseline_df, current_df, raising)

\* lines 9-91.  raising: the columns whose statistical analysis raises inside
\* its try block (the outcome of the statistics library on that column)
DetectDriftBetweenDfs(baseline_df, current_df, raising) ==
    LET baseline_cols == Columns(baseline_df)
        current_cols == Columns(current_df)
        r1 == NewColumnPass(EmptyDict, NewColumns(baseline_cols, current_cols))
        r2 == MissingColumnPass(r1, MissingColumns(baseline_cols, current_cols))
        r3 == TypeChangePass(r2, baseline_cols \cap current_cols,
                             baseline_df, current_df)
    IN  DataDriftPass(r3, baseline_cols \cap current_cols,
                      baseline_df, current_df, raising)

\* the shared columns whose analysis enters a try block
TriedColumns(baseline_df, current_df) ==
    {col \in Columns(baseline_df) \cap Columns(current_df) :
        /\ ~IsEmpty(DropNa(baseline_df.col[col].values))
        /\ ~IsEmpty(DropNa(current_df.col[col].values))
        /\ DriftArm(col, baseline_df.col[col].dtype) # "none"}

DriftDtypes == {"int64", "float64", "bool", "object", "datetime64", "category"}

DriftTables == UNION {TablesOf(n, [dt \in DriftDtypes |-> DomainOf(dt)]) : n \in 0..DriftMaxRows}

Idle == [fn |-> "idle"]
NoRet == [raised |-> "none"]

InitIdle ==
    /\ pc = "idle"
    /\ call = Idle
    /\ ret = NoRet
    /\ conns = {}

\* the handler has returned; the next request starts from nothing
Reset ==
    /\ pc = "done"
    /\ pc' = "idle"
    /\ call' = Idle
    /\ ret' = NoRet
    /\ UNCHANGED conns

\* a call of DriftDetector._detect_drift_between_dfs
CallDetectDriftBetweenDfs ==
    /\ pc = "idle"
    /\ \E baseline_df \in DriftTables, current_df \in DriftTables :
         \E raising \in SUBSET TriedColumns(baseline_df, current_df) :
            /\ call' = [fn |-> "detect_drift_between_dfs",
                        baseline_df |-> baseline_df,
                        current_df |-> current_df,
                        raising |-> raising]
            /\ ret' = [raised |-> "none",
                       value |-> DetectDriftBetweenDfs(baseline_df, current_df,
                                                       raising)]
    /\ pc' = "done"
    /\ UNCHANGED conns

NextDrift == CallDetectDriftBetweenDfs \/ Reset

SpecDrift == InitIdle /\ [][NextDrift]_vars

(***************************************************************************)
(* Claims about _detect_drift_between_dfs, checked under SpecDrift.        *)
(***************************************************************************)
DriftCallDone == pc = "done" /\ call.fn = "detect_drift_between_dfs"

SharedColumns == Columns(call.baseline_df) \cap Columns(call.current_df)

FailureNotes ==
    {[note |-> "numeric drift detection failed"],
     [note |-> "categorical drift detection failed"],
     [note |-> "datetime drift detection failed"]}

\* two reports agree on a column: both have no entry, or the same entry
SameEntry(r1, r2, col) ==
    /\ col \in DOMAIN r1 <=> col \in DOMAIN r2
    /\ col \in DOMAIN r1 => r1[col] = r2[col]

\* C1: when the statistical analysis of a shared column raises, the call still
\* returns a report, the column's entry is the failure note of its arm, and
\* every other column's entry is what it is when that column does not raise.
C1_FailureIsolation ==
    DriftCallDone =>
        /\ ret.raised = "none"
        /\ \A col \in call.raising :
            /\ col \in DOMAIN ret.value
            /\ ret.value[col] \in FailureNotes
            /\ \A other \in Names \ {col} :
                 SameEntry(ret.value,
                           DetectDriftBetweenDfs(call.baseline_df, call.current_df,
                                                 call.raising \ {col}),
                           other)

\* a column's analysis raised while another column's analysis gave a finding
C1_Witness ==
    /\ DriftCallDone
    /\ \E col \in call.raising :
         \E other \in SharedColumns \ {col} :
            /\ other \in DOMAIN ret.value
            /\ "drift_score" \in DOMAIN ret.value[other]

TypeChangedColumns ==
    {col \in SharedColumns :
        call.baseline_df.col[col].dtype # call.current_df.col[col].dtype}

TypeChangeOf(col) ==
    [schema_change |-> <<"type change", call.baseline_df.col[col].dtype,
                         call.current_df.col[col].dtype>>]

\* C2 as stated: every shared column whose storage types differ has the
\* finding 'type change: X -> Y' in the returned report.
C2_TypeChangeAlwaysReported ==
    DriftCallDone =>
        \A col \in TypeChangedColumns :
            /\ col \in DOMAIN ret.value
            /\ ret.value[col] = TypeChangeOf(col)

\* the data-drift pass stores an entry for a shared column: both sides have a
\* non-missing value, and the arm picked from the baseline type gives a
\* finding or a note (the temporal arm gives nothing when a side has no
\* parseable date)
DataDriftStores(col) ==
    LET base_dtype == call.baseline_df.col[col].dtype
        base_col == DropNa(call.baseline_df.col[col].values)
        curr_col == DropNa(call.current_df.col[col].values)
    IN  /\ base_col # <<>>
        /\ curr_col # <<>>
        /\ \/ base_dtype \in {"int64", "float64", "bool", "object"}
           \/ /\ base_dtype = "datetime64" \/ NameHasDate(col)
              /\ \/ col \in call.raising
                 \/ \E c \in Range(curr_col) : c.k = "bool"
                 \/ /\ ToDatetimeDropNa(base_col) # <<>>
                    /\ ToDatetimeDropNa(curr_col) # <<>>

\* C2 as amended: every shared column whose storage types differ has an entry
\* in the returned report; the entry is the finding 'type change: X -> Y'
\* exactly when the data-drift pass stores nothing for the column, and
\* otherwise it is the data-drift finding, temporal range or failure note
\* that replaced it.
C2_TypeChangeUnlessOverwritten ==
    DriftCallDone =>
        \A col \in TypeChangedColumns :
            /\ col \in DOMAIN ret.value
            /\ IF DataDriftStores(col)
               THEN "schema_change" \notin DOMAIN ret.value[col]
               ELSE ret.value[col] = TypeChangeOf(col)

\* one retyped column kept its type-change finding and another lost it
C2_Witness ==
    /\ DriftCallDone
    /\ \E col \in TypeChangedColumns : ret.value[col] = TypeChangeOf(col)
    /\ \E col \in TypeChangedColumns : "drift_score" \in DOMAIN ret.value[col]

HasFinding(report, col, finding) ==
    col \in DOMAIN report /\ report[col] = [schema_change |-> finding]

\* C4: a column has a 'new column detected' finding in drift(A, B) exactly when
\* it has a 'column missing' finding in drift(B, A), and the other way round;
\* these findings are in the report for exactly the columns of the set
\* difference of the two column sets.
C4_SchemaDiffSymmetry ==
    DriftCallDone =>
        LET fwd == ret.value
            rev == DetectDriftBetweenDfs(call.current_df, call.baseline_df, {})
            base_cols == Columns(call.baseline_df)
            curr_cols == Columns(call.current_df)
        IN  \A col \in Names :
              /\ HasFinding(fwd, col, <<"new column detected", col>>)
                   <=> HasFinding(rev, col, <<"column missing", col>>)
              /\ HasFinding(fwd, col, <<"column missing", col>>)
                   <=> HasFinding(rev, col, <<"new column detected", col>>)
              /\ HasFinding(fwd, col, <<"new column detected", col>>)
                   <=> col \in curr_cols \ base_cols
              /\ HasFinding(fwd, col, <<"column missing", col>>)
                   <=> col \in base_cols \ curr_cols

\* one column was added and another was removed
C4_Witness ==
    /\ DriftCallDone
    /\ \E col \in Names : HasFinding(ret.value, col, <<"new column detected", col>>)
    /\ \E col \in Names : HasFinding(ret.value, col, <<"column missing", col>>)

TemporalRangeKeys ==
    {"earliest_baseline", "earliest_current", "latest_baseline", "latest_current"}

\* the columns C9 is about: shared, a non-missing value on both sides, storage
\* type not integer or float, 'date' in the lower-cased name, a parseable date
\* on both sides, and an analysis that does not raise
C9_Columns ==
    {col \in SharedColumns \ call.raising :
        /\ DropNa(call.baseline_df.col[col].values) # <<>>
        /\ DropNa(call.current_df.col[col].values) # <<>>
        /\ call.baseline_df.col[col].dtype \notin {"int64", "float64"}
        /\ NameHasDate(col)
        /\ ToDatetimeDropNa(DropNa(call.baseline_df.col[col].values)) # <<>>
        /\ ToDatetimeDropNa(DropNa(call.current_df.col[col].values)) # <<>>}

\* C9 as stated: a shared column with non-missing values on both sides whose
\* storage type is not integer/float and whose name contains 'date' gets, when
\* both sides have a parseable date, a temporal-range record with no
\* drift_score and no p_value.
C9_DateNamedColumnIsTemporal ==
    DriftCallDone =>
        \A col \in C9_Columns :
            /\ col \in DOMAIN ret.value
            /\ DOMAIN ret.value[col] = TemporalRangeKeys

(***************************************************************************)
(* drift_detector.py: DriftDetector._load_sql_to_dfs and detect_drift;     *)
(* routes.py: the /detect-drift route.                                     *)
(*                                                                         *)
(* A file is its name's suffix and what its bytes hold: a table (CSV), a   *)
(* dump of named tables (SQL), or text its loader cannot read.             *)
(***************************************************************************)
TableNames == {"users", "orders"}

\* the one value a column of a loaded file holds here, by storage type
FileDomainOf(dt) == IF dt = "int64" THEN {Num(1)} ELSE {Str("abc")}

\* the tables a file can hold: one row, integer and text columns
FileTables ==
    {t \in TablesOf(1, [dt \in {"int64", "object"} |-> FileDomainOf(dt)]) : Columns(t) # {}}

\* the dumps a .sql file can hold
SqlDumps == UNION {[S -> FileTables] : S \in SUBSET TableNames}

Malformed == [kind |-> "malformed"]

Files ==
    {[suffix |-> ".csv", data |-> [kind |-> "csv", df |-> t]] : t \in FileTables}
    \cup {[suffix |-> ".sql", data |-> [kind |-> "sql", tables |-> d]] : d \in SqlDumps}
    \cup {[suffix |-> x, data |-> Malformed] : x \in {".csv", ".sql", ".txt"}}

\* str.endswith
EndsWith(file, suffix) == file.suffix = suffix

\* pd.read_csv (lines 123-124): the table, or the parser's error
ReadCsv(file) ==
    IF file.data.kind = "csv"
    THEN [raised |-> "none", value |-> file.data.df]
    ELSE [raised |-> "ParserError"]

\* lines 94-113: the tables of the dump by name, or the engine's error
LoadSqlToDfs(file) ==
    IF file.data.kind = "sql"
    THEN [raised |-> "none", value |-> file.data.tables]
    ELSE [raised |-> "OperationalError"]

\* line 131
SharedTables(baseline_tables, current_tables) ==
    (DOMAIN baseline_tables) \cap (DOMAIN current_tables)

\* lines 131-139 with line 136 passing the baseline table on both sides
RECURSIVE SqlReportSameSide(_, _, _, _, _)
SqlReportSameSide(report, shared_tables, baseline_tables, current_tables, raising) ==
    IF shared_tables = {} THEN report
    ELSE LET table == CHOOSE x \in shared_tables : TRUE
         IN  SqlReportSameSide(
                 Put(report, table,
                     DetectDriftBetweenDfs(baseline_tables[table],
                                           baseline_tables[table], raising)),
                 shared_tables \ {table}, baseline_tables, current_tables, raising)

\* lines 132-139
RECURSIVE SqlReport(_, _, _, _, _)
SqlReport(report, shared_tables, baseline_tables, current_tables, raising) ==
    IF shared_tables = {} THEN report
    ELSE LET table == CHOOSE x \in shared_tables : TRUE
         IN  SqlReport(
                 Put(report, table,
                     DetectDriftBetweenDfs(baseline_tables[table],
                                           current_tables[table], raising)),
                 shared_tables \ {table}, baseline_tables, current_tables, raising)

\* lines 116-142: the report, or what was raised
DetectDrift(baseline_file, current_file, raising) ==
    IF EndsWith(baseline_file, ".csv") /\ EndsWith(current_file, ".csv")
    THEN LET baseline_df == ReadCsv(baseline_file)
             current_df == ReadCsv(current_file)
         IN  IF baseline_df.raised # "none" THEN baseline_df
             ELSE IF current_df.raised # "none" THEN current_df
             ELSE [raised |-> "none",
                   value |-> DetectDriftBetweenDfs(baseline_df.value,
                                                   current_df.value, raising)]
    ELSE IF EndsWith(baseline_file, ".sql") /\ EndsWith(current_file, ".sql")
    THEN LET baseline_tables == LoadSqlToDfs(baseline_file)
             current_tables == LoadSqlToDfs(current_file)
         IN  IF baseline_tables.raised # "none" THEN baseline_tables
             ELSE IF current_tables.raised # "none" THEN current_tables
             ELSE [raised |-> "none",
                   value |-> SqlReport(EmptyDict,
                                       SharedTables(baseline_tables.value,
                                                    current_tables.value),
                                       baseline_tables.value,
                                       current_tables.value, raising)]
    ELSE [raised |-> "ValueError",
          message |-> "Both files must be of the same type (.csv or .sql)"]

\* the files detect_drift loads before it returns or raises
LoadedFiles(baseline_file, current_file) ==
    IF \/ EndsWith(baseline_file, ".csv") /\ EndsWith(current_file, ".csv")
       \/ EndsWith(baseline_file, ".sql") /\ EndsWith(current_file, ".sql")
    THEN IF (IF EndsWith(baseline_file, ".csv") THEN ReadCsv(baseline_file)
             ELSE LoadSqlToDfs(baseline_file)).raised # "none"
         THEN {"baseline"}
         ELSE {"baseline", "current"}
    ELSE {}

\* routes.py lines 64-66: the suffix check of the route
ValidExt(file) == EndsWith(file, ".csv") \/ EndsWith(file, ".sql")

\* routes.py lines 85-86: the status the route gives what detect_drift raised
StatusOfRaised(raised) == 500

\* routes.py lines 56-93: the response of the route, with the temporary
\* files left behind
RouteDetectDrift(baseline_file, current_file, raising) ==
    IF ~ValidExt(baseline_file) \/ ~ValidExt(current_file)
    THEN [status |-> 400,
          detail |-> <<"Files must be either both CSVs or both SQL dumps.">>,
          loaded |-> {},
          temp_files |-> {}]
    ELSE LET r == DetectDrift(baseline_file, current_file, raising)
         IN  IF r.raised = "none"
             THEN [status |-> 200, body |-> r.value,
                   loaded |-> LoadedFiles(baseline_file, current_file),
                   temp_files |-> {}]
             ELSE [status |-> StatusOfRaised(r.raised),
                   detail |-> <<"Error detecting drift: ",
                                IF r.raised = "ValueError" THEN r.message
                                ELSE r.raised>>,
                   loaded |-> LoadedFiles(baseline_file, current_file),
                   temp_files |-> {}]

\* the columns of the files' shared tables whose analysis enters a try block
TriedInFiles(baseline_file, current_file) ==
    IF baseline_file.data.kind = "csv" /\ current_file.data.kind = "csv"
    THEN TriedColumns(baseline_file.data.df, current_file.data.df)
    ELSE IF baseline_file.data.kind = "sql" /\ current_file.data.kind = "sql"
    THEN UNION {TriedColumns(baseline_file.data.tables[t],
                             current_file.data.tables[t]) :
                  t \in SharedTables(baseline_file.data.tables,
                                     current_file.data.tables)}
    ELSE {}

\* a call of DriftDetector.detect_drift
CallDetectDrift ==
    /\ pc = "idle"
    /\ \E baseline_file \in Files, current_file \in Files :
         \E raising \in SUBSET TriedInFiles(baseline_file, current_file) :
            /\ call' = [fn |-> "detect_drift",
                        baseline_file |-> baseline_file,
                        current_file |-> current_file,
                        raising |-> raising]
            /\ ret' = DetectDrift(baseline_file, current_file, raising)
    /\ pc' = "done"
    /\ UNCHANGED conns

\* a request to the /detect-drift route
CallRouteDetectDrift ==
    /\ pc = "idle"
    /\ \E baseline_file \in Files, current_file \in Files :
         \E raising \in SUBSET TriedInFiles(baseline_file, current_file) :
            /\ call' = [fn |-> "route_detect_drift",
                        baseline_file |-> baseline_file,
                        current_file |-> current_file,
                        raising |-> raising]
            /\ ret' = RouteDetectDrift(baseline_file, current_file, raising)
    /\ pc' = "done"
    /\ UNCHANGED conns

NextFiles == CallDetectDrift \/ CallRouteDetectDrift \/ Reset

SpecFiles == InitIdle /\ [][NextFiles]_vars

(***************************************************************************)
(* Claims about detect_drift and its route, checked under SpecFiles.       *)
(***************************************************************************)
SqlDriftDone ==
    /\ pc = "done"
    /\ call.fn = "detect_drift"
    /\ call.baseline_file.data.kind = "sql"
    /\ call.current_file.data.kind = "sql"
    /\ EndsWith(call.baseline_file, ".sql")
    /\ EndsWith(call.current_file, ".sql")

\* C3: for two SQL dumps the top-level keys of the report are exactly the
\* table names present in both dumps, a table of one side only gives no entry
\* and no error, each shared table's value is the single-table drift report
\* of its two versions, and a column added to a shared table in current is
\* 'new column detected' under that table.
C3_MultiTableDrift ==
    SqlDriftDone =>
        LET baseline_tables == call.baseline_file.data.tables
            current_tables == call.current_file.data.tables
        IN  /\ ret.raised = "none"
            /\ DOMAIN ret.value = (DOMAIN baseline_tables) \cap (DOMAIN current_tables)
            /\ \A table \in DOMAIN ret.value :
                 /\ ret.value[table] =
                      DetectDriftBetweenDfs(baseline_tables[table],
                                            current_tables[table], call.raising)
                 /\ \A col \in Columns(current_tables[table])
                                 \ Columns(baseline_tables[table]) :
                      HasFinding(ret.value[table], col,
                                 <<"new column detected", col>>)

\* 'orders' is in current only, and the shared 'users' has a column added
C3_Witness ==
    /\ SqlDriftDone
    /\ "orders" \in DOMAIN call.current_file.data.tables
    /\ "orders" \notin DOMAIN call.baseline_file.data.tables
    /\ "users" \in DOMAIN ret.value
    /\ \E col \in Names :
         HasFinding(ret.value["users"], col, <<"new column detected", col>>)

\* C7 as stated: a drift request with one .csv and one .sql file is rejected
\* before either file is loaded, as a client fault (HTTP 400) with a message.
C7_MismatchedKindsAreClientFault ==
    /\ pc = "done"
    /\ call.fn = "route_detect_drift"
    /\ {call.baseline_file.suffix, call.current_file.suffix} = {".csv", ".sql"}
    => /\ ret.status = 400
       /\ ret.loaded = {}
       /\ ret.detail # <<>>

(***************************************************************************)
(* readiness_rater.py                                                      *)
(***************************************************************************)
\* round(num / den), den > 0: to the nearest integer, a half to the even one
Round(num, den) ==
    LET q == num \div den
        r == num - q * den
    IN  IF 2 * r < den THEN q
        ELSE IF 2 * r > den THEN q + 1
        ELSE IF q % 2 = 0 THEN q ELSE q + 1

\* max(0, x)
Max0(x) == IF x < 0 THEN 0 ELSE x

\* the statements of a SQL script, each the words of its text
StmtCreate == <<"CREATE", "TABLE", "t">>
StmtCreateLower == <<"create", "table", "u">>
StmtCreateTemp == <<"CREATE", "TEMP", "TABLE", "v">>
StmtInsert == <<"INSERT", "INTO", "t">>
Statements == {StmtCreate, StmtCreateLower, StmtCreateTemp, StmtInsert}

RECURSIVE SeqsUpTo(_, _)
SeqsUpTo(S, n) ==
    IF n = 0 THEN {<<>>}
    ELSE LET shorter == SeqsUpTo(S, n - 1)
         IN  shorter \cup {Append(q, x) : q \in shorter, x \in S}

\* the scripts of at most MaxStmts statements
Scripts == SeqsUpTo(Statements, MaxStmts)

\* str.lower() on one word
LowerWord(w) ==
    CASE w = "CREATE" -> "create"
      [] w = "TABLE" -> "table"
      [] w = "TEMP" -> "temp"
      [] w = "INSERT" -> "insert"
      [] w = "INTO" -> "into"
      [] OTHER -> w

\* line 14: sqlparse.parse, which does not validate: one Statement for each
\* statement of the text, none for an empty text
SqlParse(sql_script) == sql_script

\* line 21: 'create table' in sql_script.lower()
HasCreateTable(sql_script) ==
    \E i \in 1..Len(sql_script) :
        \E j \in 1..(Len(sql_script[i]) - 1) :
            /\ LowerWord(sql_script[i][j]) = "create"
            /\ LowerWord(sql_script[i][j + 1]) = "table"

\* lines 16-18
ParsedHealth(sql_script) ==
    IF SqlParse(sql_script) = <<>> THEN 0 ELSE 100

\* lines 12-30: the scores of a schema-only SQL script
SqlReadinessScore(sql_script) ==
    LET h0 == ParsedHealth(sql_script)
        schema_health_score == IF ~HasCreateTable(sql_script) THEN h0 - 50 ELSE h0
    IN  [overall |-> Round(schema_health_score * 2, 10),
         completeness |-> 100,
         consistency |-> 100,
         schema_health |-> Round(schema_health_score, 1)]

\* DataFrame.empty
DfEmpty(df) == df.nrows = 0 \/ Columns(df) = {}

\* df.isnull().sum().sum()
NullCells(df) ==
    Cardinality({<<col, i>> \in Columns(df) \X (1..df.nrows) :
                    df.col[col].values[i].k = "nan"})

\* row i of the table
RowOf(df, i) == [col \in Columns(df) |-> df.col[col].values[i]]

\* df.duplicated().sum(): the rows equal to an earlier row
DuplicateRows(df) ==
    Cardinality({i \in 1..df.nrows : \E j \in 1..(i - 1) : RowOf(df, j) = RowOf(df, i)})

\* the text pd.to_numeric reads as a number
NumericStrings == {"7"}

\* pd.to_numeric(errors='coerce') on one cell is a number
CoercesToNumeric(c) ==
    \/ c.k \in {"num", "bool"}
    \/ c.k = "str" /\ c.s \in NumericStrings

\* line 82 with the test inverted: no value of the column reads as a number
NoNumericTextIn(df, col) ==
    ~\E c \in Range(df.col[col].values) : CoercesToNumeric(c)

\* line 82: pd.to_numeric(df[col], errors='coerce').notna().sum() > 0
NumericTextIn(df, col) ==
    \E c \in Range(df.col[col].values) : CoercesToNumeric(c)

\* Series.nunique(): the distinct non-missing values
NUnique(values) == Cardinality(Range(DropNa(values)))

\* lines 80-89
SchemaHealthScore(df) ==
    LET text_cols == {col \in Columns(df) : df.col[col].dtype = "object"}
        numeric_text == {col \in text_cols : NumericTextIn(df, col)}
        constant == {col \in Columns(df) : NUnique(df.col[col].values) = 1}
    IN  Max0(100 - 5 * Cardinality(numeric_text) - 10 * Cardinality(constant))

\* lines 59-99.  completeness and consistency are kept as exact fractions of
\* total_cells and total_rows until they are rounded
CalculateReadinessScore(df) ==
    IF DfEmpty(df)
    THEN [overall |-> 0, completeness |-> 0, consistency |-> 0,
          schema_health |-> 0, message |-> "Dataset is empty."]
    ELSE LET total_cells == df.nrows * Cardinality(Columns(df))
             null_cells == NullCells(df)
             \* completeness_score * total_cells
             completeness_n == Max0(100 * total_cells - 100 * null_cells)
             duplicate_rows == DuplicateRows(df)
             total_rows == df.nrows
             \* consistency_score * total_rows
             consistency_n == Max0(100 * total_rows - 100 * duplicate_rows)
             schema_health_score == SchemaHealthScore(df)
         IN  [overall |-> Round(4 * completeness_n * total_rows
                                  + 4 * consistency_n * total_cells
                                  + 2 * schema_health_score * total_cells * total_rows,
                                10 * total_cells * total_rows),
              completeness |-> Round(completeness_n, total_cells),
              consistency |-> Round(consistency_n, total_rows),
              schema_health |-> Round(schema_health_score, 1)]

\* lines 43-56: the table of a data file, or what reading it raised (the
\* readers raise ValueError subclasses on text they cannot parse, and other
\* exceptions on a broken container)
ReadDataFromFile(source_type, file_contents) ==
    IF source_type \in {"csv", "xlsx", "xls", "json", "parquet"}
    THEN IF file_contents.kind = "table"
         THEN [raised |-> "none", value |-> file_contents.df]
         ELSE [raised |-> file_contents.error]
    ELSE [raised |-> "ValueError", message |-> "Unsupported file type"]

\* lines 6-40: (readiness_score, rows analysed), or the HTTP fault raised
ReadDataAndCalculateScore(source_type, file_contents) ==
    IF source_type = "sql"
    THEN IF file_contents.kind = "script"
         THEN [raised |-> "none",
               readiness_score |-> SqlReadinessScore(file_contents.script),
               rows |-> 0]
         ELSE \* line 13: UnicodeDecodeError is a ValueError
              [raised |-> "HTTPException", status |-> 400]
    ELSE LET df == ReadDataFromFile(source_type, file_contents)
         IN  IF df.raised = "none"
             THEN [raised |-> "none",
                   readiness_score |-> CalculateReadinessScore(df.value),
                   rows |-> df.value.nrows]
             ELSE IF df.raised = "ValueError"
             THEN [raised |-> "HTTPException", status |-> 400]
             ELSE [raised |-> "HTTPException", status |-> 500]

\* lines 101-113
RateReadiness(file_extension, file_contents) ==
    LET r == ReadDataAndCalculateScore(file_extension, file_contents)
    IN  IF r.raised = "none"
        THEN [raised |-> "none",
              value |-> [source_file |-> file_extension,
                         readiness_score |-> r.readiness_score,
                         total_rows_analyzed |-> r.rows]]
        ELSE r

\* the values a column of a rated table holds, by storage type
RatedDomainOf(dt) ==
    CASE dt = "int64" -> {Num(1), Num(2)}
      [] dt = "float64" -> {Num(2), NaN}
      [] OTHER -> {Str("abc"), Str("xyz"), Str("7"), NaN}

RatedTables ==
    UNION {TablesOf(n, [dt \in {"int64", "float64", "object"} |-> RatedDomainOf(dt)]) : n \in 0..MaxRows}

\* what the bytes of an uploaded file hold
RatedContents ==
    {[kind |-> "table", df |-> t] : t \in RatedTables}
    \cup {[kind |-> "script", script |-> x] : x \in Scripts}
    \cup {[kind |-> "unreadable", error |-> e] : e \in {"ValueError", "Exception"}}

\* a file is read by the reader its extension names
Readable(ext, contents) ==
    \/ contents.kind = "unreadable" /\ (ext = "sql" => contents.error = "ValueError")
    \/ ext = "sql" /\ contents.kind = "script"
    \/ ext \in {"csv", "json"} /\ contents.kind = "table"
    \/ ext = "txt" /\ contents.kind = "unreadable"

\* a call of rate_readiness
CallRateReadiness ==
    /\ pc = "idle"
    /\ \E ext \in {"csv", "json", "sql", "txt"}, contents \in RatedContents :
         /\ Readable(ext, contents)
         /\ call' = [fn |-> "rate_readiness", ext |-> ext, contents |-> contents]
         /\ ret' = RateReadiness(ext, contents)
    /\ pc' = "done"
    /\ UNCHANGED conns

NextReadiness == CallRateReadiness \/ Reset

SpecReadiness == InitIdle /\ [][NextReadiness]_vars

(***************************************************************************)
(* Claims about the readiness rater, checked under SpecReadiness.          *)
(***************************************************************************)
ReadinessDone ==
    pc = "done" /\ call.fn = "rate_readiness" /\ ret.raised = "none"

\* C5 as stated: for every accepted input (empty table, non-empty table,
\* schema-only SQL script, also one that parses into no statement or has no
\* table-creation statement) overall, completeness, consistency and
\* schema_health each lie in [0, 100].
C5_ScoresInRange ==
    ReadinessDone =>
        LET score == ret.value.readiness_score
        IN  /\ score.overall \in 0..100
            /\ score.completeness \in 0..100
            /\ score.consistency \in 0..100
            /\ score.schema_health \in 0..100

\* the rated input is a non-empty table with no missing cell, no row equal to
\* an earlier row and no column with exactly one distinct value
CleanTable ==
    /\ call.contents.kind = "table"
    /\ LET df == call.contents.df
       IN  /\ df.nrows > 0
           /\ Columns(df) # {}
           /\ \A col \in Columns(df) :
                /\ \A i \in 1..df.nrows : df.col[col].values[i].k # "nan"
                /\ Cardinality(Range(df.col[col].values)) # 1
           /\ \A i \in 1..df.nrows : \A j \in 1..(i - 1) :
                \E col \in Columns(df) :
                    df.col[col].values[i] # df.col[col].values[j]

AllHundred ==
    [overall |-> 100, completeness |-> 100, consistency |-> 100,
     schema_health |-> 100]

\* C6 as stated: every clean table is scored 100 on all four values.
C6_CleanTableScoresHundred ==
    ReadinessDone /\ CleanTable => ret.value.readiness_score = AllHundred

\* no text column of the rated table has a value that reads as a number
NoNumericText ==
    LET df == call.contents.df
    IN  \A col \in Columns(df) :
            df.col[col].dtype = "object" =>
                \A i \in 1..df.nrows : df.col[col].values[i].s \notin NumericStrings

\* C6 as amended: every clean table none of whose text columns has a value
\* that reads as a number is scored 100 on all four values.
C6_CleanTableWithoutNumericText ==
    ReadinessDone /\ CleanTable /\ NoNumericText
        => ret.value.readiness_score = AllHundred

\* a clean table with a text column was rated
C6_Witness ==
    /\ ReadinessDone
    /\ CleanTable
    /\ NoNumericText
    /\ \E col \in Columns(call.contents.df) : call.contents.df.col[col].dtype = "object"
    /\ ret.value.readiness_score = AllHundred

(***************************************************************************)
(* field_profiler.py                                                       *)
(***************************************************************************)
\* rows of a table handed to field_profiler._profile_dataframe
ProfileMaxRows == 4

\* the days from 1970-01-01 to the date yyyymmdd (proleptic Gregorian)
DayNumber(date) ==
    LET d == date % 100
        m == (date \div 100) % 100
        y == (date \div 10000) - (IF m <= 2 THEN 1 ELSE 0)
        era == y \div 400
        yoe == y - era * 400
        doy == (153 * (IF m > 2 THEN m - 3 ELSE m + 9) + 2) \div 5 + d - 1
        doe == yoe * 365 + yoe \div 4 - yoe \div 100 + doy
    IN  era * 146097 + doe - 719468

\* values sorted by size
Sorted(values) == SortSeq(values, LAMBDA a, b : a.n < b.n)

\* 4 * Series.quantile(k / 4) by linear interpolation, on sorted values
Quantile4(sorted, k) ==
    LET pos4 == k * (Len(sorted) - 1)
        lo == pos4 \div 4 + 1
        frac4 == pos4 % 4
    IN  IF frac4 = 0 THEN 4 * sorted[lo].n
        ELSE 4 * sorted[lo].n + frac4 * (sorted[lo + 1].n - sorted[lo].n)

\* lines 70-78: the values of a numeric column outside the IQR fences, in row
\* order, each in hundredths
OutlierValues(values) ==
    LET sorted == Sorted(DropNa(values))
    IN  IF sorted = <<>> THEN <<>>
        ELSE LET q1 == Quantile4(sorted, 1)
                 q3 == Quantile4(sorted, 3)
                 iqr == q3 - q1
                 high8 == 2 * q3 + 3 * iqr
                 low8 == 2 * q1 - 3 * iqr
                 out == SelectSeq(values, LAMBDA c :
                            c.k # "nan" /\ (8 * c.n > high8 \/ 8 * c.n < low8))
             IN  [i \in 1..Len(out) |-> 100 * out[i].n]

\* lines 20-27: the statistics of a numeric column; min, max and mean in
\* hundredths, std_dev and entropy as the library gives them
NumericStats(col_data) ==
    [min |-> 100 * MinOf(col_data).n,
     max |-> 100 * MaxOf(col_data).n,
     mean |-> Round(100 * SumOf(col_data), Len(col_data)),
     std_dev |-> "std_dev",
     entropy |-> "entropy"]

\* lines 28-38: the statistics of a temporal column
TemporalStats(col_data) ==
    LET dates == ToDatetimeDropNa(col_data)
    IN  IF \E c \in Range(col_data) : c.k = "bool"
        THEN [note |-> "Invalid datetime format"]
        ELSE IF dates = <<>>
        THEN [min |-> <<>>, max |-> <<>>, temporal_spread_days |-> <<>>]
        ELSE [min |-> IsoDate(MinOf(dates).n),
              max |-> IsoDate(MaxOf(dates).n),
              temporal_spread_days |->
                  <<DayNumber(MaxOf(dates).n) - DayNumber(MinOf(dates).n)>>]

\* lines 39-43: the statistics of any other column
CategoricalStats(col_data) ==
    [unique_values |-> NUnique(col_data), entropy |-> "entropy"]

\* lines 20-43: the statistics of one column, on its non-missing values
FieldStats(col, dtype, col_data) ==
    IF IsNumericDtype(dtype) THEN NumericStats(col_data)
    ELSE IF IsDatetime64AnyDtype(dtype) \/ NameHasDate(col) THEN TemporalStats(col_data)
    ELSE CategoricalStats(col_data)

\* lines 14-45
RECURSIVE FieldStatistics(_, _, _)
FieldStatistics(stats, cols, df) ==
    IF cols = {} THEN stats
    ELSE LET col == CHOOSE x \in cols : TRUE
             col_data == DropNa(df.col[col].values)
         IN  FieldStatistics(
                 IF IsEmpty(col_data) THEN stats
                 ELSE Put(stats, col, FieldStats(col, df.col[col].dtype, col_data)),
                 cols \ {col}, df)

\* the missing cells of a column
NullCount(values) == Len(values) - Len(DropNa(values))

\* lines 51-52 without the test 'if p > 0'
MissingValuesOfAll(df) ==
    LET cols == {col \in Columns(df) : df.nrows > 0}
    IN  [col \in cols |-> Round(10000 * NullCount(df.col[col].values), df.nrows)]

\* lines 51-52: the share of missing cells in hundredths of a percent, for the
\* columns where it is above 0 (the mean over no rows is NaN, which is not)
MissingValues(df) ==
    LET cols == {col \in Columns(df) :
                    df.nrows > 0 /\ NullCount(df.col[col].values) > 0}
    IN  [col \in cols |-> Round(10000 * NullCount(df.col[col].values), df.nrows)]

\* lines 55-65: the categories of text columns the baseline schema lacks
SchemaDrift(df, baseline_schema) ==
    LET cols == {col \in (DOMAIN baseline_schema) \cap Columns(df) :
                    /\ df.col[col].dtype = "object"
                    /\ Range(DropNa(df.col[col].values)) \ baseline_schema[col] # {}}
    IN  [col \in cols |->
            [new_categories |->
                Range(DropNa(df.col[col].values)) \ baseline_schema[col]]]

\* lines 68-80: select_dtypes(include=[np.number]) leaves booleans out
Outliers(df) ==
    LET cols == {col \in Columns(df) :
                    /\ df.col[col].dtype \in {"int64", "float64"}
                    /\ OutlierValues(df.col[col].values) # <<>>}
    IN  [col \in cols |-> OutlierValues(df.col[col].values)]

\* lines 48-82: the anomalies, as the keys present with their values
Anomalies(df, baseline_schema) ==
    LET drift == SchemaDrift(df, baseline_schema)
        outliers == Outliers(df)
    IN  [key \in {"missing_values"}
                 \cup (IF DOMAIN drift # {} THEN {"schema_drift"} ELSE {})
                 \cup (IF DOMAIN outliers # {} THEN {"outliers"} ELSE {}) |->
            CASE key = "missing_values" -> MissingValues(df)
              [] key = "schema_drift" -> drift
              [] OTHER -> outliers]

\* lines 7-83.  baseline_schema: column -> known values; None is the empty
\* mapping, which line 55 treats alike
ProfileDataframe(df, baseline_schema) ==
    [field_statistics |-> FieldStatistics(EmptyDict, Columns(df), df),
     anomalies |-> Anomalies(df, baseline_schema)]

\* lines 109-111
RECURSIVE ProfileTables(_, _, _)
ProfileTables(tables, names, dump) ==
    IF names = {} THEN tables
    ELSE LET table == CHOOSE x \in names : TRUE
         IN  ProfileTables(Put(tables, table, ProfileDataframe(dump[table], EmptyDict)),
                           names \ {table}, dump)

\* lines 98-115: the profiles by table name, or the engine's error
ProfileSql(contents) ==
    IF contents.kind = "sql"
    THEN [raised |-> "none",
          value |-> [tables |-> ProfileTables(EmptyDict, DOMAIN contents.tables,
                                              contents.tables)]]
    ELSE [raised |-> "OperationalError"]

\* the values a column of a profiled table holds, by storage type
ProfiledDomainOf(dt) ==
    CASE dt = "int64" -> {Num(1), Num(9)}
      [] dt = "float64" -> {Num(2), NaN}
      [] dt = "datetime64" -> {Date(20240105), Date(20240301)}
      [] OTHER -> {Str("abc"), Str("2024-01-05")}

ProfiledTables ==
    UNION {TablesOf(n, [dt \in {"int64", "float64", "object", "datetime64"} |-> ProfiledDomainOf(dt)]) :
             n \in 0..ProfileMaxRows}

BaselineSchemas ==
    {EmptyDict, [col \in Names |-> {Str("abc")}]}

\* the tables of a SQL dump: no row, or one row of integers, text and NULLs
DumpDomainOf(dt) == IF dt = "int64" THEN {Num(1)} ELSE {Str("abc"), NaN}

DumpTables ==
    {t \in TablesOf(0, [dt \in {"object"} |-> DumpDomainOf(dt)])
           \cup TablesOf(1, [dt \in {"int64", "object"} |-> DumpDomainOf(dt)]) : Columns(t) # {}}

ProfiledContents ==
    {[kind |-> "sql", tables |-> d] :
        d \in UNION {[S -> DumpTables] : S \in SUBSET TableNames}}
    \cup {Malformed}

\* a call of field_profiler._profile_dataframe
CallProfileDataframe ==
    /\ pc = "idle"
    /\ \E df \in ProfiledTables, baseline_schema \in BaselineSchemas :
         /\ call' = [fn |-> "profile_dataframe", df |-> df,
                     baseline_schema |-> baseline_schema]
         /\ ret' = [raised |-> "none", value |-> ProfileDataframe(df, baseline_schema)]
    /\ pc' = "done"
    /\ UNCHANGED conns

\* a call of field_profiler.profile_sql
CallProfileSql ==
    /\ pc = "idle"
    /\ \E contents \in ProfiledContents :
         /\ call' = [fn |-> "profile_sql", contents |-> contents]
         /\ ret' = ProfileSql(contents)
    /\ pc' = "done"
    /\ UNCHANGED conns

NextProfile == CallProfileDataframe \/ CallProfileSql \/ Reset

SpecProfile == InitIdle /\ [][NextProfile]_vars

(***************************************************************************)
(* Claims about the field profiler, checked under SpecProfile.             *)
(***************************************************************************)
ProfileSqlDone ==
    pc = "done" /\ call.fn = "profile_sql" /\ call.contents.kind = "sql"

\* C8 as stated: every table of a multi-table source gets its own profile keyed
\* by table name, and a table with zero rows yields a profile carrying an
\* explicit 'empty' marker and a zero row count, without the call failing.
C8_EmptyTableIsMarked ==
    ProfileSqlDone =>
        /\ ret.raised = "none"
        /\ DOMAIN ret.value.tables = DOMAIN call.contents.tables
        /\ \A table \in DOMAIN call.contents.tables :
             call.contents.tables[table].nrows = 0 =>
                 DOMAIN ret.value.tables[table]
                     \ {"field_statistics", "anomalies"} # {}

ProfileDataframeDone == pc = "done" /\ call.fn = "profile_dataframe"

HasValue(df, col) == \E i \in 1..df.nrows : df.col[col].values[i] # NaN

HasMissing(df, col) == \E i \in 1..df.nrows : df.col[col].values[i] = NaN

\* the key sets of one profile against the table it was made from
KeySetsMatch(df, profile) ==
    /\ DOMAIN profile.field_statistics =
           {col \in Columns(df) : HasValue(df, col)}
    /\ DOMAIN profile.anomalies["missing_values"] =
           {col \in Columns(df) : HasMissing(df, col)}
    /\ \A col \in Columns(df) :
         (HasMissing(df, col) /\ ~HasValue(df, col)) =>
             profile.anomalies["missing_values"][col] = 10000

\* C12: in the result of _profile_dataframe, field_statistics has an entry for
\* a column if and only if the column has at least one non-missing value, and
\* anomalies.missing_values has an entry for a column if and only if the
\* column has at least one missing value; an entirely missing column is in
\* missing_values at 100 (percent, here in hundredths).  This holds of a
\* direct call and of the profile of every table of a SQL dump.
C12_FieldProfileKeySets ==
    /\ ProfileDataframeDone => KeySetsMatch(call.df, ret.value)
    /\ ProfileSqlDone =>
         \A table \in DOMAIN call.contents.tables :
            KeySetsMatch(call.contents.tables[table], ret.value.tables[table])

\* a table whose id column is entirely missing and whose date column is
\* fully populated, profiled
C12_Witness ==
    /\ ProfileDataframeDone
    /\ call.df.nrows = 2
    /\ Columns(call.df) = Names
    /\ ~HasValue(call.df, NameId)
    /\ ~HasMissing(call.df, NameDate)
    /\ DOMAIN ret.value.field_statistics = {NameDate}
    /\ ret.value.anomalies["missing_values"] = [col \in {NameId} |-> 10000]

(***************************************************************************)
(* schema_scanner.py                                                       *)
(***************************************************************************)
\* 'sub' in str(dtype), for the dtype names of the model
DtypeNameHas(dt, sub) ==
    CASE sub = "object" -> dt = "object"
      [] sub = "int" -> dt = "int64"
      [] sub = "float" -> dt = "float64"
      [] sub = "datetime" -> dt = "datetime64"
      [] OTHER -> FALSE

\* line 36: pd.to_datetime(df[col], errors='raise') raises: a non-missing
\* value does not parse as a date
ToDatetimeRaises(values) ==
    \E c \in Range(values) : c.k # "nan" /\ ToDatetimeCoerce(c) = NaN

\* lines 33-47
DataType(dtype, values) ==
    IF DtypeNameHas(dtype, "object")
    THEN IF ToDatetimeRaises(values) THEN "Text" ELSE "Date"
    ELSE IF DtypeNameHas(dtype, "int") THEN "Integer"
    ELSE IF DtypeNameHas(dtype, "float") THEN "Float"
    ELSE IF DtypeNameHas(dtype, "datetime") THEN "Date"
    ELSE dtype

\* the rows holding value c
CountOf(values, c) == Cardinality({i \in 1..Len(values) : values[i] = c})

\* the row where value c first appears
FirstRowOf(values, c) == CHOOSE i \in 1..Len(values) :
    values[i] = c /\ \A j \in 1..(i - 1) : values[j] # c

\* line 29: value_counts().nlargest(3).index.tolist(): the non-missing values,
\* the most frequent first and of equally frequent ones the earlier first, at
\* most three of them
TopValues(values) ==
    LET present == DropNa(values)
        distinct == SelectSeq([i \in 1..Len(present) |->
                                  IF FirstRowOf(present, present[i]) = i
                                  THEN present[i] ELSE NaN],
                              LAMBDA c : c.k # "nan")
        ranked == SortSeq(distinct, LAMBDA a, b :
                      \/ CountOf(present, a) > CountOf(present, b)
                      \/ /\ CountOf(present, a) = CountOf(present, b)
                         /\ FirstRowOf(present, a) < FirstRowOf(present, b))
    IN  SubSeq(ranked, 1, IF Len(ranked) < 3 THEN Len(ranked) ELSE 3)

\* str(value) of one cell: a text is itself; a number, a boolean and a
\* timestamp are printed from their value
StrOf(c) ==
    CASE c.k = "str" -> <<c.s>>
      [] c.k = "num" -> <<"number", c.n>>
      [] c.k = "bool" -> <<IF c.n = 1 THEN "True" ELSE "False">>
      [] OTHER -> <<"timestamp", IsoDate(c.n), "00:00:00">>

\* lines 19-55: the summary of one column
ColumnSummary(df, col) ==
    LET values == df.col[col].values
        null_count == NullCount(values)
        total_count == df.nrows
        distinct_count == NUnique(values)
        top_values == TopValues(values)
    IN  [field |-> col,
         data_type |-> DataType(df.col[col].dtype, values),
         \* f"{null_percentage:.1f}%", in tenths of a percent
         null |-> Round(1000 * null_count, total_count),
         distinct_count |-> distinct_count,
         top_values |-> [str |-> [i \in 1..Len(top_values) |-> StrOf(top_values[i])],
                         ellipsis |-> distinct_count > 3]]

\* lines 5-60: schema_scanner._profile_dataframe; the summary table by column
ScanDataframe(df) ==
    IF DfEmpty(df)
    THEN [summary_table |-> EmptyDict, total_rows |-> 0,
          message |-> "Sheet is empty."]
    ELSE [summary_table |-> [col \in Columns(df) |-> ColumnSummary(df, col)],
          total_rows |-> df.nrows]

\* lines 62-93: scan_schema; the except clause of line 92 also catches the
\* HTTPException of line 88
ScanSchema(file_extension, contents) ==
    IF file_extension = "csv"
    THEN IF contents.kind = "table"
         THEN [raised |-> "none", value |-> [sheet \in {"file"} |-> ScanDataframe(contents.df)]]
         ELSE [raised |-> "HTTPException", status |-> 500]
    ELSE IF file_extension \in {"xlsx", "xls"}
    THEN IF contents.kind = "sheets" /\ DOMAIN contents.sheets # {}
         THEN [raised |-> "none",
               value |-> [sheet \in DOMAIN contents.sheets |->
                             ScanDataframe(contents.sheets[sheet])]]
         ELSE [raised |-> "HTTPException", status |-> 500]
    ELSE [raised |-> "HTTPException", status |-> 500]

\* the values a column of a scanned table holds, by storage type
ScannedDomainOf(dt) ==
    CASE dt = "int64" -> {Num(1), Num(3)}
      [] dt = "float64" -> {Num(2), NaN}
      [] dt = "bool" -> {Bool(TRUE), Bool(FALSE)}
      [] dt = "datetime64" -> {Date(20240105), NaN}
      [] OTHER -> {Str("abc"), Str("2024-01-05"), NaN}

ScanDtypes == {"int64", "float64", "bool", "object", "datetime64"}

ScannedTables ==
    UNION {TablesOf(n, [dt \in ScanDtypes |-> ScannedDomainOf(dt)]) : n \in 0..MaxRows}

SheetNames == {"Sheet1", "Sheet2"}

\* the one value a column of a sheet holds here, by storage type
SheetDomainOf(dt) ==
    CASE dt = "int64" -> {Num(1)}
      [] dt = "float64" -> {NaN}
      [] dt = "bool" -> {Bool(TRUE)}
      [] dt = "datetime64" -> {Date(20240105)}
      [] OTHER -> {Str("abc")}

\* the sheets of a workbook: one row each
SheetTables == TablesOf(1, [dt \in ScanDtypes |-> SheetDomainOf(dt)])

ScannedContents ==
    {[kind |-> "table", df |-> t] :
        t \in {x \in ScannedTables :
                 \A col \in Columns(x) : x.col[col].dtype # "datetime64"}}
    \cup {[kind |-> "sheets", sheets |-> w] :
            w \in UNION {[S -> SheetTables] : S \in SUBSET SheetNames}}
    \cup {Malformed}

\* a call of schema_scanner._profile_dataframe
CallScanDataframe ==
    /\ pc = "idle"
    /\ \E df \in ScannedTables :
         /\ call' = [fn |-> "scan_dataframe", df |-> df]
         /\ ret' = [raised |-> "none", value |-> ScanDataframe(df)]
    /\ pc' = "done"
    /\ UNCHANGED conns

\* a call of schema_scanner.scan_schema
CallScanSchema ==
    /\ pc = "idle"
    /\ \E ext \in {"csv", "xlsx", "txt"}, contents \in ScannedContents :
         /\ \/ contents.kind = "malformed"
            \/ ext = "csv" /\ contents.kind = "table"
            \/ ext = "xlsx" /\ contents.kind = "sheets"
         /\ call' = [fn |-> "scan_schema", ext |-> ext, contents |-> contents]
         /\ ret' = ScanSchema(ext, contents)
    /\ pc' = "done"
    /\ UNCHANGED conns

NextScan == CallScanDataframe \/ CallScanSchema \/ Reset

SpecScan == InitIdle /\ [][NextScan]_vars

(***************************************************************************)
(* Claims about the schema scanner, checked under SpecScan.                *)
(***************************************************************************)
\* C10 as stated: for every column of every non-empty scanned table, whatever
\* its storage type, the reported data_type is one of Integer, Float, Date,
\* Text, and it is Date for a text column only when every non-missing value
\* parses as a date.
C10_DataTypeIsOneOfFour ==
    pc = "done" /\ call.fn = "scan_dataframe" /\ ~DfEmpty(call.df) =>
        \A col \in Columns(call.df) :
            LET data_type == ret.value.summary_table[col].data_type
                values == call.df.col[col].values
            IN  /\ data_type \in {"Integer", "Float", "Date", "Text"}
                /\ call.df.col[col].dtype = "object" /\ data_type = "Date" =>
                     \A i \in 1..Len(values) :
                         values[i].k = "nan"
                         \/ (values[i].k = "str" /\ values[i].s \in DateStrings)

(***************************************************************************)
(* The SQL engine: drift_detector._load_sql_to_dfs and                     *)
(* field_profiler.profile_sql, statement by statement.                     *)
(* A connection is [id, tables]: sqlite3.connect(":memory:") gives every   *)
(* connection a database of its own, which lives until it is closed.       *)
(***************************************************************************)
SqlLoaders == {"load_sql_to_dfs", "profile_sql"}

\* what a script does to the engine: the tables its statements create, and
\* whether a later statement of it fails
EngineScripts ==
    {[tables |-> d, fails |-> f] :
        d \in UNION {[S -> DumpTables] : S \in SUBSET TableNames},
        f \in BOOLEAN}

ConnIds == {c.id : c \in conns}

\* the handle sqlite3.connect returns: one no open connection has
NewConnId == CHOOSE i \in 1..(Cardinality(conns) + 1) : i \notin ConnIds

ConnOf(id) == CHOOSE c \in conns : c.id = id

\* drift_detector.py line 101, field_profiler.py line 100
SqliteConnect(cs, id) == cs \cup {[id |-> id, tables |-> EmptyDict]}

\* cursor.executescript: the statements run so far stay in the database
ExecuteScriptOn(cs, id, script) ==
    {IF c.id = id THEN [c EXCEPT !.tables = script.tables] ELSE c : c \in cs}

\* a finally clause that closes only when the try block returned
FinallyCloseOnReturn(cs, id, raised) ==
    IF raised = "none" THEN {c \in cs : c.id # id} ELSE cs

\* drift_detector.py lines 112-113, field_profiler.py lines 114-115: the
\* finally clause runs whatever the try block did
FinallyClose(cs, id, raised) == {c \in cs : c.id # id}

\* the text cannot be had: open() fails (drift_detector.py line 98) or the
\* bytes are not UTF-8 (field_profiler.py line 99); nothing is connected yet
ReadTextFails ==
    /\ pc = "idle"
    /\ \E fn \in SqlLoaders :
         /\ call' = [fn |-> fn, script |-> [tables |-> EmptyDict, fails |-> TRUE],
                     conn |-> 0, names |-> {}, out |-> EmptyDict]
         /\ ret' = [raised |-> IF fn = "profile_sql" THEN "UnicodeDecodeError"
                               ELSE "FileNotFoundError"]
    /\ pc' = "done"
    /\ UNCHANGED conns

\* conn = sqlite3.connect(":memory:"), entering the try block
Connect ==
    /\ pc = "idle"
    /\ \E fn \in SqlLoaders, script \in EngineScripts :
         call' = [fn |-> fn, script |-> script, conn |-> NewConnId,
                  names |-> {}, out |-> EmptyDict]
    /\ conns' = SqliteConnect(conns, NewConnId)
    /\ ret' = NoRet
    /\ pc' = "try"

\* cursor.executescript(sql_text)
ExecuteScript ==
    /\ pc = "try"
    /\ conns' = ExecuteScriptOn(conns, call.conn, call.script)
    /\ IF call.script.fails
       THEN /\ ret' = [raised |-> "OperationalError"]
            /\ pc' = "finally"
       ELSE /\ ret' = ret
            /\ pc' = "script"
    /\ UNCHANGED call

\* pd.read_sql("SELECT name FROM sqlite_master WHERE type='table';", conn)
ListTables ==
    /\ pc = "script"
    /\ \/ /\ call' = [call EXCEPT !.names = DOMAIN ConnOf(call.conn).tables]
          /\ ret' = ret
          /\ pc' = "loop"
       \/ /\ ret' = [raised |-> "DatabaseError"]
          /\ pc' = "finally"
          /\ UNCHANGED call
    /\ UNCHANGED conns

\* one turn of the loop over the tables: the table is read and, in
\* profile_sql, profiled; either step may raise
ReadTable ==
    /\ pc = "loop"
    /\ \E table \in call.names :
         LET df == ConnOf(call.conn).tables[table]
         IN  \/ /\ call' = [call EXCEPT
                              !.names = @ \ {table},
                              !.out = Put(@, table,
                                          IF call.fn = "profile_sql"
                                          THEN ProfileDataframe(df, EmptyDict)
                                          ELSE df)]
                /\ ret' = ret
                /\ pc' = "loop"
             \/ /\ ret' = [raised |-> "DatabaseError"]
                /\ pc' = "finally"
                /\ UNCHANGED call
             \/ /\ call.fn = "profile_sql"
                /\ ret' = [raised |-> "Exception"]
                /\ pc' = "finally"
                /\ UNCHANGED call
    /\ UNCHANGED conns

\* return table_dfs / return results
ReturnTables ==
    /\ pc = "loop"
    /\ call.names = {}
    /\ ret' = [raised |-> "none",
               value |-> IF call.fn = "profile_sql" THEN [tables |-> call.out]
                         ELSE call.out]
    /\ pc' = "finally"
    /\ UNCHANGED <<call, conns>>

\* finally: conn.close(); the call then returns or raises
Finally ==
    /\ pc = "finally"
    /\ conns' = FinallyClose(conns, call.conn, ret.raised)
    /\ pc' = "done"
    /\ UNCHANGED <<call, ret>>

NextEngine ==
    \/ ReadTextFails
    \/ Connect
    \/ ExecuteScript
    \/ ListTables
    \/ ReadTable
    \/ ReturnTables
    \/ Finally
    \/ Reset

SpecEngine == InitIdle /\ [][NextEngine]_vars

(***************************************************************************)
(* Claims about the SQL engine, checked under SpecEngine.                  *)
(***************************************************************************)
LoadDone == pc = "done" /\ call.fn \in SqlLoaders

\* C11: every connection opened by _load_sql_to_dfs or profile_sql is closed
\* before the call returns or raises, on every exit path: between calls and
\* when a call has ended no connection is open; and each load starts from an
\* engine with no tables from a previous load: the connection entering the
\* try block is the only one open and its database has no table.
C11_EngineTeardown ==
    /\ pc \in {"idle", "done"} => conns = {}
    /\ pc = "try" => conns = {[id |-> call.conn, tables |-> EmptyDict]}
    /\ pc \in {"try", "script", "loop", "finally"} => ConnIds = {call.conn}

\* a load that raised while reading its second table, after the script had
\* created both, and has ended with the connection closed
C11_Witness ==
    /\ LoadDone
    /\ ret.raised = "DatabaseError"
    /\ DOMAIN call.script.tables = TableNames
    /\ DOMAIN call.out # {}
    /\ conns = {}

====
